---------------------------- MODULE Spec2Model ----------------------------
(***************************************************************************)
(* A model of the record-to-transcript pipeline of src/main.py             *)
(* (ClaudeHistoryExporter).                                                *)
(*                                                                         *)
(* Text is modelled character by character: a Python str is a sequence of  *)
(* one-character tokens.  ASCII characters are themselves (the grave       *)
(* accent, which a TLA+ string cannot hold, is "U+0060"); a non-ASCII      *)
(* character is the token "U+<code point>".                                *)
(***************************************************************************)
EXTENDS Integers, Sequences, FiniteSets, TLC

VARIABLES
    \* process_jsonl_file
    lang,                   \* self.lang
    pc,                     \* "loop" in the per-line loop, "done" after the file is written,
                            \* "aborted" after the except clause of line 200 returned
    line_num,               \* the lines read so far
    pending_messages,
    conversation_content,
    message_count,
    output_filename,        \* the name of the file written, <<>> before
    written,                \* the text written to it
    accepted,               \* history: the message objects created so far (line 164)
    accepted_at,            \* history: the number of the line of each
    flushes,                \* history: [messages, formatted] of each call of line 186 / 195
    \* one content payload, analysed and rendered item by item
    message_content,        \* the payload
    analysis,               \* the result of _analyze_content, <<>> before
    item_idx,               \* the items _process_content_list has processed
    content_parts,
    is_first_tool,
    rpc,                    \* "new", "analyzed", "rendering", "rendered", "raised"
    \* a call of one function
    arg,                    \* its argument
    ret,                    \* its result
    cpc,                    \* "ready" before the call, "returned" after it
    shortened,              \* the text _truncate_filename_bytes shortens
    iterations              \* history: the iterations of its loop

mergeVars == <<lang, pc, line_num, pending_messages, conversation_content, message_count,
               output_filename, written, accepted, accepted_at, flushes>>
contentVars == <<message_content, analysis, item_idx, content_parts, is_first_tool, rpc>>
callVars == <<arg, ret, cpc, shortened, iterations>>
vars == <<mergeVars, contentVars, callVars>>

---------------------------------------------------------------------------
(* Characters *)

NL == "\n"
SP == " "
TAB == "\t"
ARROW == "U+2192"        \* the arrow glyph of tool output line numbers
BOX == "U+2500"          \* the separator glyph of the header
ICON_USER == "U+1F464"
ICON_ASSISTANT == "U+1F916"
ICON_TOOL == "U+1F527"
ICON_RESULT == "U+2705"

\* str.isspace / the regex class \s
IsSpace(c) == c \in {" ", "\t", "\n", "\r"}

\* the regex class \d
IsDigit(c) == c \in {"0", "1", "2", "3", "4", "5", "6", "7", "8", "9"}

---------------------------------------------------------------------------
(* Python str operations on character sequences *)

\* the numbers of S in increasing order
SortedSeq(S) ==
    [k \in 1..Cardinality(S) |-> CHOOSE x \in S : Cardinality({y \in S : y <= x}) = k]

\* s.split('\n'): the lines of s, at least one
Split(s) ==
    LET p == SortedSeq({i \in 1..Len(s) : s[i] = NL})
        b == <<0>> \o p \o <<Len(s) + 1>>
    IN  [j \in 1..(Len(p) + 1) |-> SubSeq(s, b[j] + 1, b[j + 1] - 1)]

\* sep.join(parts)
RECURSIVE Join(_, _)
Join(parts, sep) ==
    IF parts = <<>> THEN <<>>
    ELSE IF Len(parts) = 1 THEN parts[1]
    ELSE Join(SubSeq(parts, 1, Len(parts) \div 2), sep) \o sep
         \o Join(SubSeq(parts, Len(parts) \div 2 + 1, Len(parts)), sep)

\* index of the first character at or after i that is not whitespace
RECURSIVE SpaceRun(_, _)
SpaceRun(s, i) ==
    IF i <= Len(s) /\ IsSpace(s[i]) THEN SpaceRun(s, i + 1) ELSE i

\* index of the first character at or after i that is not a digit
RECURSIVE DigitRun(_, _)
DigitRun(s, i) ==
    IF i <= Len(s) /\ IsDigit(s[i]) THEN DigitRun(s, i + 1) ELSE i

\* index of the last character at or before i that is not whitespace (0: none)
RECURSIVE SpaceRunBack(_, _)
SpaceRunBack(s, i) ==
    IF i >= 1 /\ IsSpace(s[i]) THEN SpaceRunBack(s, i - 1) ELSE i

\* s.strip()
Strip(s) == SubSeq(s, SpaceRun(s, 1), SpaceRunBack(s, Len(s)))

\* bool(s.strip())
NonBlank(s) == \E i \in 1..Len(s) : ~IsSpace(s[i])

\* s.startswith(p)
StartsWith(s, p) == Len(s) >= Len(p) /\ SubSeq(s, 1, Len(p)) = p

\* s.endswith(p)
EndsWith(s, p) == Len(s) >= Len(p) /\ SubSeq(s, Len(s) - Len(p) + 1, Len(s)) = p

\* p in s
Contains(s, p) == \E i \in 1..(Len(s) - Len(p) + 1) : SubSeq(s, i, i + Len(p) - 1) = p

\* c * n
Rep(c, n) == [i \in 1..n |-> c]

\* the strings over the alphabet A of length at most n
Strings(A, n) == UNION {[1..k -> A] : k \in 0..n}

---------------------------------------------------------------------------
(* Python values: the JSON shapes a field can hold *)

Str(s) == [t |-> "str", s |-> s]
None == [t |-> "none"]
\* a number, by its str() form; zero is the falsy one
Num(s) == [t |-> "num", s |-> s]
\* a list, by its elements
List(items) == [t |-> "list", items |-> items]
\* a dict with str keys, by its (key, value) pairs in insertion order
Map(kv) == [t |-> "map", kv |-> kv]

\* bool(v)
Truthy(v) ==
    CASE v.t = "str" -> v.s # <<>>
      [] v.t = "none" -> FALSE
      [] v.t = "num" -> v.s # <<"0">>
      [] v.t = "list" -> v.items # <<>>
      [] v.t = "map" -> v.kv # <<>>
      [] OTHER -> TRUE

\* repr(v) of a scalar (a str is quoted; the strings modelled need no escape)
PyRepr(v) ==
    CASE v.t = "str" -> <<"'">> \o v.s \o <<"'">>
      [] v.t = "none" -> <<"N", "o", "n", "e">>
      [] v.t = "num" -> v.s

\* str(v); a list of scalars prints the repr of its elements
PyStr(v) ==
    CASE v.t = "str" -> v.s
      [] v.t = "none" -> <<"N", "o", "n", "e">>
      [] v.t = "num" -> v.s
      [] v.t = "list" ->
            <<"[">> \o Join([i \in 1..Len(v.items) |-> PyRepr(v.items[i])], <<",", " ">>)
            \o <<"]">>

---------------------------------------------------------------------------
(* clean_content *)

\* re.sub(r'^\s*\d+\s*ARROW', '', line): the line without a leading line number
StripLineNumber_DigitOnly(line) ==
    LET a == SpaceRun(line, 1)
    IN  IF a <= Len(line) /\ IsDigit(line[a])
        THEN SubSeq(line, a + 1, Len(line))
        ELSE line

StripLineNumber(line) ==
    LET a == SpaceRun(line, 1)
        b == DigitRun(line, a)
        c == SpaceRun(line, b)
    IN  IF b > a /\ c <= Len(line) /\ line[c] = ARROW
        THEN SubSeq(line, c + 1, Len(line))
        ELSE line

\* re.sub(r'^ARROW\s*', '', line): the line without a leading bare arrow
StripBareArrow(line) ==
    IF Len(line) >= 1 /\ line[1] = ARROW
    THEN SubSeq(line, SpaceRun(line, 2), Len(line))
    ELSE line

CleanLine(line) == StripBareArrow(StripLineNumber(line))

clean_content(content) ==
    IF ~Truthy(content) THEN <<>>
    ELSE LET s == PyStr(content)
             lines == Split(s)
         IN  Join([j \in 1..Len(lines) |-> CleanLine(lines[j])], <<NL>>)

---------------------------------------------------------------------------
(* Code points: ord(c), the UTF-8 width of a character and the class \w *)

Ascii ==
    <<" ", "!", "\"", "#", "$", "%", "&", "'", "(", ")", "*", "+", ",",
      "-", ".", "/", "0", "1", "2", "3", "4", "5", "6", "7", "8", "9", ":",
      ";", "<", "=", ">", "?", "@", "A", "B", "C", "D", "E", "F", "G", "H",
      "I", "J", "K", "L", "M", "N", "O", "P", "Q", "R", "S", "T", "U", "V",
      "W", "X", "Y", "Z", "[", "\\", "]", "^", "_", "U+0060", "a", "b", "c",
      "d", "e", "f", "g", "h", "i", "j", "k", "l", "m", "n", "o", "p", "q",
      "r", "s", "t", "u", "v", "w", "x", "y", "z", "{", "|", "}", "~">>

NonAscii ==
    { <<"U+00E9", 233>>, <<"U+2192", 8594>>, <<"U+2500", 9472>>,
      <<"U+2705", 9989>>, <<"U+4E2D", 20013>>, <<"U+5185", 20869>>,
      <<"U+52A9", 21161>>, <<"U+53C2", 21442>>, <<"U+5BB9", 23481>>,
      <<"U+5DF2", 24050>>, <<"U+622A", 25130>>, <<"U+6237", 25143>>,
      <<"U+624B", 25163>>, <<"U+6570", 25968>>, <<"U+65AD", 26029>>,
      <<"U+679C", 26524>>, <<"U+7528", 29992>>, <<"U+7ED3", 32467>>,
      <<"U+8FC7", 36807>>, <<"U+957F", 38271>>, <<"U+FF0C", 65292>>,
      <<"U+1F464", 128100>>, <<"U+1F527", 128295>>, <<"U+1F916", 129302>>,
      <<"U+20000", 131072>> }

\* ord(c)
Ord(c) ==
    IF c = NL THEN 10
    ELSE IF c = TAB THEN 9
    ELSE IF c = "\r" THEN 13
    ELSE IF \E i \in 1..Len(Ascii) : Ascii[i] = c
         THEN 31 + (CHOOSE i \in 1..Len(Ascii) : Ascii[i] = c)
    ELSE (CHOOSE p \in NonAscii : p[1] = c)[2]

\* len(c.encode('utf-8'))
Utf8Width(c) ==
    LET o == Ord(c)
    IN  IF o < 128 THEN 1 ELSE IF o < 2048 THEN 2 ELSE IF o < 65536 THEN 3 ELSE 4

\* len(s.encode('utf-8'))
Utf8Len(s) ==
    LET wide(w) == Cardinality({i \in 1..Len(s) : Utf8Width(s[i]) >= w})
    IN  Len(s) + wide(2) + wide(3) + wide(4)

\* the letters and ideographs beyond ASCII (str.isalnum)
AlnumNonAscii ==
    { "U+00E9", "U+4E2D", "U+5185", "U+52A9", "U+53C2", "U+5BB9", "U+5DF2",
      "U+622A", "U+6237", "U+624B", "U+6570", "U+65AD", "U+679C", "U+7528",
      "U+7ED3", "U+8FC7", "U+957F", "U+20000" }

\* the regex class \w of a str pattern
IsWord(c) ==
    LET o == Ord(c)
    IN  \/ (o >= 48 /\ o <= 57) \/ (o >= 65 /\ o <= 90) \/ (o >= 97 /\ o <= 122)
        \/ c = "_"
        \/ c \in AlnumNonAscii

\* a < b for str (by code point, the shorter first)
RECURSIVE StrLess(_, _)
StrLess(a, b) ==
    IF b = <<>> THEN FALSE
    ELSE IF a = <<>> THEN TRUE
    ELSE IF Head(a) = Head(b) THEN StrLess(Tail(a), Tail(b))
    ELSE Ord(Head(a)) < Ord(Head(b))

---------------------------------------------------------------------------
(* LANGUAGES and the class constants *)

LANGUAGES ==
    [zh |-> [user |-> <<"U+1F464", " ", "U+7528", "U+6237">>,
             assistant |-> <<"U+1F916", " ", "U+52A9", "U+624B">>,
             tool |-> <<"U+1F527">>,
             result |-> <<"U+2705", " ", "U+7ED3", "U+679C", ":">>,
             param |-> <<"U+53C2", "U+6570", ":">>],
     en |-> [user |-> <<"U+1F464", " ", "U", "s", "e", "r">>,
             assistant |-> <<"U+1F916", " ", "A", "s", "s", "i", "s", "t", "a", "n", "t">>,
             tool |-> <<"U+1F527">>,
             result |-> <<"U+2705", " ", "R", "e", "s", "u", "l", "t", ":">>,
             param |-> <<"A", "r", "g", "s", ":">>]]

SEPARATOR_LENGTH == 80
MAX_RESULT_LENGTH == 5000
MAX_FILENAME_BYTES == 60

\* "\n... (<content too long, truncated>)\n", the marker of a truncated result
TRUNCATION_MARKER ==
    <<NL, ".", ".", ".", " ", "(", "U+5185", "U+5BB9", "U+8FC7", "U+957F",
      "U+FF0C", "U+5DF2", "U+622A", "U+65AD", ")", NL>>

\* dict.get(key, default)
Get(d, key, default) == IF key \in DOMAIN d THEN d[key] ELSE default

---------------------------------------------------------------------------
(* format_timestamp and _format_message_header *)

\* index of the first character at or after i that is neither a digit nor ':'
RECURSIVE ClockRun(_, _)
ClockRun(s, i) ==
    IF i <= Len(s) /\ (IsDigit(s[i]) \/ s[i] = ":") THEN ClockRun(s, i + 1) ELSE i

\* the end of the match of \d{4}-\d{2}-\d{2}T[\d:]+\.?\d* at the start of s, or 0
IsoMatchEnd(s) ==
    IF /\ Len(s) >= 12
       /\ \A i \in {1, 2, 3, 4, 6, 7, 9, 10} : IsDigit(s[i])
       /\ s[5] = "-" /\ s[8] = "-" /\ s[11] = "T"
       /\ ClockRun(s, 12) > 12
    THEN LET c == ClockRun(s, 12)
             d == IF c <= Len(s) /\ s[c] = "." THEN c + 1 ELSE c
         IN  DigitRun(s, d) - 1
    ELSE 0

format_timestamp(timestamp) ==
    IF timestamp = <<>> THEN <<>>
    ELSE IF IsoMatchEnd(timestamp) > 0 THEN SubSeq(timestamp, 1, IsoMatchEnd(timestamp))
    ELSE timestamp

_format_message_header(texts, role, timestamp) ==
    LET formatted_time == format_timestamp(timestamp)
        role_name == IF role = "user" THEN texts.user ELSE texts.assistant
    IN  <<NL>> \o Rep(BOX, SEPARATOR_LENGTH) \o <<NL>>
        \o role_name \o <<" ", "|", " ">> \o formatted_time \o <<NL>>
        \o Rep(BOX, SEPARATOR_LENGTH) \o <<NL>>

---------------------------------------------------------------------------
(* format_dict *)

RECURSIVE SortedKeys(_)
SortedKeys(K) ==
    IF K = {} THEN <<>>
    ELSE LET m == CHOOSE x \in K : \A y \in K \ {x} : StrLess(x, y)
         IN  <<m>> \o SortedKeys(K \ {m})

\* data[key]
Lookup(data, key) == data.kv[CHOOSE i \in 1..Len(data.kv) : data.kv[i][1] = key][2]

\* lines 541-545: '  ' * indent
Indentation_Unscaled(indent) == Rep(SP, indent)

Indentation(indent) == Rep(SP, 2 * indent)

RECURSIVE format_dict(_, _)
format_dict(data, indent) ==
    IF data.t # "map" THEN PyStr(data)
    ELSE LET keys == SortedKeys({data.kv[i][1] : i \in 1..Len(data.kv)})
             entry(key) ==
                 LET value == Lookup(data, key)
                 IN  IF value.t = "map"
                     THEN Indentation(indent) \o key \o <<":", " ">>
                          \o format_dict(value, indent + 1)
                     ELSE IF value.t = "list"
                     THEN Indentation(indent) \o key \o <<":", " ", "[">>
                          \o Join([i \in 1..Len(value.items) |-> PyStr(value.items[i])],
                                  <<",", " ">>)
                          \o <<"]">>
                     ELSE Indentation(indent) \o key \o <<":", " ">> \o PyStr(value)
         IN  <<"{">> \o Join([j \in 1..Len(keys) |-> entry(keys[j])], <<",", " ">>)
             \o <<"}">>

---------------------------------------------------------------------------
(* Content items: a dict item carries "type" and the fields it has *)

TextItem(text) == [t |-> "dict", type |-> "text", text |-> text]
ToolUse(name, input) == [t |-> "dict", type |-> "tool_use", name |-> name, input |-> input]
ToolResult(content) == [t |-> "dict", type |-> "tool_result", content |-> content]
Thinking == [t |-> "dict", type |-> "thinking"]
OtherItem == [t |-> "dict", type |-> "image"]

---------------------------------------------------------------------------
(* _analyze_content *)

\* lines 311-312: the tool flag after one more item
HasToolsAfter_LastItemOnly(has_tools, item_type) ==
    item_type \in {"tool_use", "tool_result"}

HasToolsAfter(has_tools, item_type) ==
    IF item_type \in {"tool_use", "tool_result"} THEN TRUE ELSE has_tools

\* lines 304-318: the loop over the items, from (text_parts, has_tools)
RECURSIVE AnalyzeItems(_, _, _)
AnalyzeItems(items, text_parts, has_tools) ==
    IF items = <<>> THEN [text_parts |-> text_parts, has_tools |-> has_tools]
    ELSE LET item == Head(items)
         IN  IF item.t # "dict" THEN AnalyzeItems(Tail(items), text_parts, has_tools)
             ELSE LET item_type == Get(item, "type", "")
                      text == Get(item, "text", Str(<<>>))
                  IN  AnalyzeItems(
                          Tail(items),
                          IF item_type = "text" /\ Truthy(text)
                          THEN Append(text_parts, clean_content(text))
                          ELSE text_parts,
                          HasToolsAfter(has_tools, item_type))

_analyze_content(content) ==
    IF content.t = "str" THEN [text |-> clean_content(content), has_tools |-> FALSE]
    ELSE IF content.t # "list" THEN [text |-> <<>>, has_tools |-> FALSE]
    ELSE LET r == AnalyzeItems(content.items, <<>>, FALSE)
         IN  [text |-> Join(r.text_parts, <<NL>>), has_tools |-> r.has_tools]

---------------------------------------------------------------------------
(* The Content Renderer.  A result is [exc, out, has]: exc says the call    *)
(* raised (TypeError, AttributeError), and then out and has mean nothing.   *)

Returns(out, has) == [exc |-> FALSE, out |-> out, has |-> has]
Raises == [exc |-> TRUE, out |-> <<>>, has |-> FALSE]

_process_text_item(item) ==
    LET text_content == Get(item, "text", Str(<<>>))
    IN  IF text_content.t # "str" THEN Raises        \* no .strip() on None, a number, a list
        ELSE IF NonBlank(text_content.s) THEN Returns(clean_content(text_content), TRUE)
        ELSE Returns(<<>>, FALSE)

_process_tool_use_item(texts, item, is_first) ==
    LET tool_name == Get(item, "name", Str(<<>>))
        newline == IF is_first THEN <<NL, NL>> ELSE <<NL>>
        input_data == Get(item, "input", None)
    IN  Returns(newline \o texts.tool \o <<" ">> \o PyStr(tool_name) \o <<NL>>
                \o (IF Truthy(input_data)
                    THEN texts.param \o <<" ">> \o format_dict(input_data, 0) \o <<NL>>
                    ELSE <<>>),
                TRUE)

\* lines 374-375: the content cut to the cap, with the marker
Truncated_CleanFirst(s) ==
    IF Len(s) > MAX_RESULT_LENGTH
    THEN SubSeq(clean_content(Str(s)), 1, MAX_RESULT_LENGTH) \o <<NL>>
    ELSE s

Truncated(s) ==
    IF Len(s) > MAX_RESULT_LENGTH
    THEN SubSeq(s, 1, MAX_RESULT_LENGTH) \o TRUNCATION_MARKER
    ELSE s

_process_tool_result_item(texts, item) ==
    LET result_content == Get(item, "content", Str(<<>>))
        framed(result_cleaned) ==
            Returns(<<NL>> \o texts.result \o <<NL, NL>> \o result_cleaned \o <<NL>>, TRUE)
    IN  CASE result_content.t = "str" ->
                framed(clean_content(Str(Truncated(result_content.s))))
          [] result_content.t = "list" ->
                IF Len(result_content.items) > MAX_RESULT_LENGTH
                THEN Raises                          \* list + str
                ELSE framed(clean_content(result_content))
          [] OTHER -> Raises                         \* no len() of None or a number

\* lines 405-408: the state after a text item returned r
AfterTextItem(st, r) ==
    IF r.exc THEN [st EXCEPT !.exc = TRUE]
    ELSE IF r.has
    THEN [st EXCEPT !.content_parts = Append(@, r.out), !.is_first_tool = TRUE]
    ELSE st

\* lines 411-414: the state after a tool_use item returned r
AfterToolUseItem(st, r) ==
    IF r.has
    THEN [st EXCEPT !.content_parts = Append(@, r.out), !.is_first_tool = FALSE]
    ELSE st

\* lines 417-419: the state after a tool_result item returned r
AfterToolResultItem(st, r) ==
    IF r.exc THEN [st EXCEPT !.exc = TRUE]
    ELSE IF r.has THEN [st EXCEPT !.content_parts = Append(@, r.out)]
    ELSE st

\* lines 394-419: the loop body of _process_content_list on the state
\* [exc, content_parts, is_first_tool]
ProcessItem(tx, st, item) ==
    IF item.t # "dict" THEN st
    ELSE CASE Get(item, "type", "") = "thinking" -> st
           [] Get(item, "type", "") = "text" ->
                AfterTextItem(st, _process_text_item(item))
           [] Get(item, "type", "") = "tool_use" ->
                AfterToolUseItem(st, _process_tool_use_item(tx, item, st.is_first_tool))
           [] Get(item, "type", "") = "tool_result" ->
                AfterToolResultItem(st, _process_tool_result_item(tx, item))
           [] OTHER -> st

RECURSIVE ProcessItems(_, _, _)
ProcessItems(tx, st, items) ==
    IF items = <<>> \/ st.exc THEN st
    ELSE ProcessItems(tx, ProcessItem(tx, st, Head(items)), Tail(items))

\* line 421: the result of the loop that ended in st
ContentListResult(st) ==
    IF st.exc THEN Raises
    ELSE Returns(Join(st.content_parts, <<>>), Len(st.content_parts) > 0)

_process_content_list(tx, content) ==
    ContentListResult(
        ProcessItems(tx, [exc |-> FALSE, content_parts |-> <<>>, is_first_tool |-> TRUE],
                     content))

\* lines 455-457: a str content, cleaned
StringBody(cleaned_content) ==
    Returns(IF NonBlank(cleaned_content) THEN cleaned_content ELSE <<>>,
            NonBlank(cleaned_content))

\* lines 452-460: the body of a content
RenderContent(tx, content) ==
    IF content.t = "list" THEN _process_content_list(tx, content.items)
    ELSE IF content.t = "str" THEN StringBody(clean_content(content))
    ELSE Returns(<<>>, FALSE)

\* lines 463-468: the message of a header and a body; the result is [exc, out]
MessageText(header, body) ==
    IF body.exc THEN [exc |-> TRUE, out |-> <<>>]
    ELSE IF ~body.has THEN [exc |-> FALSE, out |-> <<>>]
    ELSE [exc |-> FALSE, out |-> header \o body.out \o <<NL, NL>>]

\* message = data.get('message', {}): the fields of an absent message
NoMessageField == [role |-> "", content |-> Str(<<>>)]

extract_message(tx, data) ==
    IF Get(data, "type", "") \notin {"user", "assistant"} THEN [exc |-> FALSE, out |-> <<>>]
    ELSE IF Get(Get(data, "message", NoMessageField), "content", Str(<<>>)).t = "none"
    THEN [exc |-> FALSE, out |-> <<>>]
    ELSE MessageText(
             _format_message_header(tx, Get(Get(data, "message", NoMessageField), "role", ""),
                                    Get(data, "timestamp", <<>>)),
             RenderContent(tx, Get(Get(data, "message", NoMessageField), "content", Str(<<>>))))

---------------------------------------------------------------------------
(* format_merged_messages.  A message object is [data, role, text,         *)
(* has_tools]; the result is [exc, out].                                   *)

WithoutHeader(formatted) ==
    LET lines == Split(formatted)
    IN  IF Len(lines) > 5 THEN Join(SubSeq(lines, 6, Len(lines)), <<NL>>) ELSE <<>>

\* line 274: what a plain member adds
PlainMemberText_Separated(messages, i) ==
    IF i > 1 THEN <<NL>> \o messages[i].text ELSE messages[i].text

PlainMemberText(messages, i) == messages[i].text

\* lines 262-271: the output after a tool-bearing member whose message is formatted
AfterToolMember(output, separate, formatted) ==
    IF formatted.exc THEN [exc |-> TRUE, out |-> <<>>]
    ELSE [exc |-> FALSE,
          out |-> output \o (IF separate THEN <<NL>> ELSE <<>>)
                  \o (IF formatted.out # <<>> THEN WithoutHeader(formatted.out) ELSE <<>>)]

\* lines 259-274: the loop body for the member at index i; body is [exc, out]
MergeMember(tx, messages, i, body) ==
    IF body.exc THEN body
    ELSE IF messages[i].has_tools
    THEN AfterToolMember(body.out, i > 1 /\ ~messages[i - 1].has_tools,
                         extract_message(tx, messages[i].data))
    ELSE [exc |-> FALSE, out |-> body.out \o PlainMemberText(messages, i)]

\* lines 258-274: the loop over the members from index i
RECURSIVE MergeMembers(_, _, _, _)
MergeMembers(tx, messages, i, body) ==
    IF i > Len(messages) THEN body
    ELSE MergeMembers(tx, messages, i + 1, MergeMember(tx, messages, i, body))

\* line 252: the timestamp of the group's header
HeaderTimestamp(messages) == Get(messages[1].data, "timestamp", <<>>)

\* lines 276-277
Closed(body) == IF body.exc THEN body ELSE [exc |-> FALSE, out |-> body.out \o <<NL, NL>>]

format_merged_messages(tx, messages) ==
    IF messages = <<>> THEN [exc |-> FALSE, out |-> <<>>]
    ELSE Closed(MergeMembers(tx, messages, 1,
             [exc |-> FALSE,
              out |-> _format_message_header(tx, messages[1].role,
                                             HeaderTimestamp(messages))]))

---------------------------------------------------------------------------
(* The Filename Deriver *)

\* re.match(r'^[BOX=]+$', line)
IsSeparatorLine(line) == line # <<>> /\ \A i \in 1..Len(line) : line[i] \in {BOX, "="}

\* re.match(r'^[<the four icons>]', line)
IsIconLine(line) ==
    line # <<>> /\ line[1] \in {ICON_USER, ICON_ASSISTANT, ICON_TOOL, ICON_RESULT}

\* re.match(r'^\d{4}-\d{2}-\d{2}T[\d:]+', line)
IsTimestampLine(line) ==
    /\ Len(line) >= 12
    /\ \A i \in {1, 2, 3, 4, 6, 7, 9, 10} : IsDigit(line[i])
    /\ line[5] = "-" /\ line[8] = "-" /\ line[11] = "T"
    /\ (IsDigit(line[12]) \/ line[12] = ":")

\* re.match(r'^(<zh param>|Args|Result|<zh result>)', line)
IsLabelLine(line) ==
    \/ StartsWith(line, <<"U+53C2", "U+6570">>)
    \/ StartsWith(line, <<"A", "r", "g", "s">>)
    \/ StartsWith(line, <<"R", "e", "s", "u", "l", "t">>)
    \/ StartsWith(line, <<"U+7ED3", "U+679C">>)

\* index of the first character at or after i that is none of # * - whitespace
RECURSIVE MarkerRun(_, _)
MarkerRun(s, i) ==
    IF i <= Len(s) /\ (s[i] \in {"#", "*", "-"} \/ IsSpace(s[i]))
    THEN MarkerRun(s, i + 1) ELSE i

\* re.sub(r'^^[#\*\s-]+', '', line.strip())
WithoutLeadingMarkers(line) ==
    LET clean_line == Strip(line)
    IN  SubSeq(clean_line, MarkerRun(clean_line, 1), Len(clean_line))

\* lines 580-600: the line is none of the skipped kinds and is collected
IsMeaningful(line) ==
    /\ ~IsSeparatorLine(line)
    /\ ~IsIconLine(line)
    /\ ~IsTimestampLine(line)
    /\ ~IsLabelLine(line)
    /\ ~StartsWith(Strip(line), <<"{">>)
    /\ NonBlank(line)
    /\ Len(Strip(line)) > 3
    /\ Len(WithoutLeadingMarkers(line)) > 0

\* lines 578-603: the loop over the lines collects the meaningful ones and
\* breaks at max_lines of them
CollectMeaningful(lines, max_lines) ==
    LET found == SelectSeq(lines, IsMeaningful)
    IN  [k \in 1..(IF Len(found) < max_lines THEN Len(found) ELSE max_lines) |->
            WithoutLeadingMarkers(found[k])]

_extract_meaningful_lines(content, max_lines) ==
    CollectMeaningful(Split(content), max_lines)

\* a character re.sub(r'[^\w\u4e00-\u9fa5_-]', '', text) keeps
IsSafeChar(c) ==
    \/ IsWord(c)
    \/ (Ord(c) >= 19968 /\ Ord(c) <= 40869)       \* U+4E00 to U+9FA5
    \/ c \in {"_", "-"}

_clean_filename_text(text) == SelectSeq(text, IsSafeChar)

\* line 632: the loop condition of _truncate_filename_bytes
TooLong_Chars(text, max_bytes) == Len(text) > max_bytes /\ Len(text) > 0

TooLong(text, max_bytes) == Utf8Len(text) > max_bytes /\ Len(text) > 0

RECURSIVE _truncate_filename_bytes(_, _)
_truncate_filename_bytes(text, max_bytes) ==
    IF TooLong(text, max_bytes)
    THEN _truncate_filename_bytes(SubSeq(text, 1, Len(text) - 1), max_bytes)
    ELSE text

\* s.replace(p, '')
RECURSIVE RemoveAll(_, _)
RemoveAll(s, p) ==
    IF s = <<>> THEN <<>>
    ELSE IF StartsWith(s, p) THEN RemoveAll(SubSeq(s, Len(p) + 1, Len(s)), p)
    ELSE <<Head(s)>> \o RemoveAll(Tail(s), p)

JSONL == <<".", "j", "s", "o", "n", "l">>
TXT == <<".", "t", "x", "t">>

\* lines 650-657: the text to truncate
MeaningfulText(content) ==
    _clean_filename_text(Join(_extract_meaningful_lines(content, 2), <<"_">>))

\* lines 663-668: the name built from the truncated text
BuildFilename(base_name, meaningful_text) ==
    IF meaningful_text # <<>>
    THEN base_name \o <<"_">> \o meaningful_text \o TXT
    ELSE base_name \o TXT

generate_filename(content, original_name) ==
    BuildFilename(RemoveAll(original_name, JSONL),
                  _truncate_filename_bytes(MeaningfulText(content), MAX_FILENAME_BYTES))

---------------------------------------------------------------------------
(* process_jsonl_file: the input lines *)

MaxLines == 3

TS1 ==
    <<"2", "0", "2", "5", "-", "1", "2", "-", "3", "0", "T", "0", "2", ":", "5", "3",
      ":", "4", "0", ".", "1", "4", "0", "Z">>
TS2 == <<"2", "0", "2", "6", "-", "0", "1", "-", "0", "2", "T", "1", "0", ":", "0", "0">>

Record(type, role, content, timestamp) ==
    [kind |-> "json",
     data |-> [type |-> type, timestamp |-> timestamp,
               message |-> [role |-> role, content |-> content]]]

ReadTool == ToolUse(Str(<<"R", "e", "a", "d">>), Map(<< <<<<"p">>, Str(<<"/", "a">>)>> >>))
BashTool == ToolUse(Str(<<"B", "a", "s", "h">>), None)

\* the records that become message objects
AcceptedLines ==
    { Record("user", "user", Str(<<"h", "i">>), TS1),
      Record("user", "user", Str(<<"t", "h", "e", "r", "e">>), TS2),
      Record("assistant", "assistant", Str(<<"1", ARROW, "o", "k">>), TS2),
      Record("assistant", "assistant",
             List(<<TextItem(Str(<<"H", "i", NL, "a", "l", "l">>)), ReadTool>>), TS1),
      Record("assistant", "assistant",
             List(<<Thinking, BashTool, TextItem(Str(<<"e", "n", "d">>))>>), TS2),
      Record("user", "user", List(<<ToolResult(Str(<<"1", ARROW, "o", "u", "t">>))>>), TS1),
      Record("user", "user", List(<<ToolResult(List(<<Num(<<"1">>), Num(<<"2">>)>>))>>), TS1),
      \* the shapes of line 92 of the specification: a result without content,
      \* a text item without text beside a tool
      Record("user", "user", List(<<ToolResult(None)>>), TS1),
      Record("assistant", "assistant", List(<<BashTool, TextItem(None)>>), TS2) }

\* the lines the loop skips
SkippedLines ==
    { [kind |-> "blank"],
      [kind |-> "malformed"],
      Record("file-history-snapshot", "", Str(<<"s">>), TS1),
      Record("system", "user", Str(<<"s", "y", "s">>), TS1),
      Record("user", "user", None, TS1),
      Record("assistant", "assistant", Str(<<SP, NL>>), TS1),
      Record("user", "user", Num(<<"7">>), TS1),
      Record("assistant", "assistant", List(<<Thinking, TextItem(Str(<<SP>>))>>), TS1) }

LineSet == AcceptedLines \cup SkippedLines

JSONL_NAME == <<"s", "1", ".", "j", "s", "o", "n", "l">>

---------------------------------------------------------------------------
(* process_jsonl_file: the per-line loop and the end of the file *)

texts == LANGUAGES[lang]

RecordContent(data) == Get(Get(data, "message", NoMessageField), "content", Str(<<>>))

\* lines 164-169: the message object of a record and its analysis
MessageObjectOf(data, content_info) ==
    [data |-> data,
     role |-> Get(Get(data, "message", NoMessageField), "role", ""),
     text |-> content_info.text,
     has_tools |-> content_info.has_tools]

\* lines 146-169
MessageObject(data) == MessageObjectOf(data, _analyze_content(RecordContent(data)))

\* line 160
IsEmpty(msg_obj) == ~NonBlank(msg_obj.text) /\ ~msg_obj.has_tools

\* lines 127-161: what the loop does with a line
LineClass(line) ==
    IF line.kind = "blank" THEN "blank"                                   \* line 128
    ELSE IF line.kind = "malformed" THEN "malformed"                      \* lines 131-135
    ELSE IF Get(line.data, "type", "") \notin {"user", "assistant"}
    THEN "other_type"                                                     \* lines 138-144
    ELSE IF RecordContent(line.data).t = "none" THEN "none_content"       \* line 151
    ELSE IF IsEmpty(MessageObject(line.data)) THEN "empty_content"        \* line 160
    ELSE "accepted"

\* The state of the loop is [pending, content, count, aborted].
\* lines 187-189 and 196-198: the formatted group is appended and counted
Appended(st, formatted) ==
    IF formatted.exc THEN [st EXCEPT !.aborted = TRUE]
    ELSE IF formatted.out # <<>>
    THEN [st EXCEPT !.content = @ \o formatted.out, !.count = @ + 1]
    ELSE st

\* lines 186-189 and 195-198: the pending group is formatted and appended
FlushPending(tx, st) == Appended(st, format_merged_messages(tx, st.pending))

\* line 191: the new group, unless the flush raised
Restarted_Appended(flushed, msg_obj) ==
    IF flushed.aborted THEN flushed ELSE [flushed EXCEPT !.pending = Append(@, msg_obj)]

Restarted(flushed, msg_obj) ==
    IF flushed.aborted THEN flushed ELSE [flushed EXCEPT !.pending = <<msg_obj>>]

\* lines 171-191: a message object enters the loop state
MergeStep(tx, st, msg_obj) ==
    IF st.aborted THEN st
    ELSE IF st.pending = <<>> THEN [st EXCEPT !.pending = <<msg_obj>>]
    ELSE IF msg_obj.role # st.pending[1].role
    THEN Restarted(FlushPending(tx, st), msg_obj)
    ELSE [st EXCEPT !.pending = Append(@, msg_obj)]

\* lines 194-198: the end of the input
FinalFlush(tx, st) ==
    IF st.aborted \/ st.pending = <<>> THEN st ELSE FlushPending(tx, st)

LoopState ==
    [pending |-> pending_messages, content |-> conversation_content,
     count |-> message_count, aborted |-> pc = "aborted"]

\* the loop state becomes st; an exception leaves the loop through line 200
SetLoopState(st) ==
    /\ pending_messages' = st.pending
    /\ conversation_content' = st.content
    /\ message_count' = st.count
    /\ pc' = IF st.aborted THEN "aborted" ELSE "loop"

\* the call of format_merged_messages logged, unless it raised
Logged(log, messages, formatted) ==
    IF formatted.exc THEN log
    ELSE Append(log, [messages |-> messages, formatted |-> formatted.out])

\* "continue": the line changes nothing
Continue_NewGroup ==
    /\ pending_messages' = <<>>
    /\ UNCHANGED <<lang, pc, conversation_content, message_count, output_filename,
                   written, accepted, accepted_at, flushes>>

Continue ==
    UNCHANGED <<lang, pc, pending_messages, conversation_content, message_count,
                output_filename, written, accepted, accepted_at, flushes>>

ReadLine ==
    /\ pc = "loop"
    /\ line_num < MaxLines
    /\ line_num' = line_num + 1

SkipBlankLine ==
    /\ ReadLine
    /\ \E line \in LineSet : LineClass(line) = "blank"
    /\ Continue
    /\ UNCHANGED <<contentVars, callVars>>

SkipMalformedJson ==
    /\ ReadLine
    /\ \E line \in LineSet : LineClass(line) = "malformed"
    /\ Continue
    /\ UNCHANGED <<contentVars, callVars>>

SkipOtherType ==
    /\ ReadLine
    /\ \E line \in LineSet : LineClass(line) = "other_type"
    /\ Continue
    /\ UNCHANGED <<contentVars, callVars>>

SkipNoneContent ==
    /\ ReadLine
    /\ \E line \in LineSet : LineClass(line) = "none_content"
    /\ Continue
    /\ UNCHANGED <<contentVars, callVars>>

SkipEmptyContent ==
    /\ ReadLine
    /\ \E line \in LineSet : LineClass(line) = "empty_content"
    /\ Continue
    /\ UNCHANGED <<contentVars, callVars>>

\* lines 163-191: the message object of an accepted record enters the loop
Accept(msg_obj) ==
    /\ SetLoopState(MergeStep(texts, LoopState, msg_obj))
    /\ accepted' = Append(accepted, msg_obj)
    /\ accepted_at' = Append(accepted_at, line_num + 1)

\* lines 174-176: the first message
StartGroup ==
    /\ ReadLine
    /\ pending_messages = <<>>
    /\ \E line \in LineSet :
          /\ LineClass(line) = "accepted"
          /\ Accept(MessageObject(line.data))
    /\ UNCHANGED <<lang, output_filename, written, flushes, contentVars, callVars>>

SameRole(msg_obj) == msg_obj.role = pending_messages[1].role

\* lines 180-182: the same role
Accumulate ==
    /\ ReadLine
    /\ pending_messages # <<>>
    /\ \E line \in LineSet :
          /\ LineClass(line) = "accepted"
          /\ SameRole(MessageObject(line.data))
          /\ Accept(MessageObject(line.data))
    /\ UNCHANGED <<lang, output_filename, written, flushes, contentVars, callVars>>

\* lines 177-179 and 184-191: the role changed
FlushOnRoleChange ==
    /\ ReadLine
    /\ pending_messages # <<>>
    /\ \E line \in LineSet :
          /\ LineClass(line) = "accepted"
          /\ ~SameRole(MessageObject(line.data))
          /\ Accept(MessageObject(line.data))
    /\ flushes' = Logged(flushes, pending_messages,
                         format_merged_messages(texts, pending_messages))
    /\ UNCHANGED <<lang, output_filename, written, contentVars, callVars>>

\* lines 206-214: the file is written, unless the loop raised
Written(st) ==
    /\ pending_messages' = st.pending
    /\ conversation_content' = st.content
    /\ message_count' = st.count
    /\ pc' = IF st.aborted THEN "aborted" ELSE "done"
    /\ output_filename' =
          IF st.aborted THEN <<>> ELSE generate_filename(st.content, JSONL_NAME)
    /\ written' = IF st.aborted THEN <<>> ELSE st.content

\* lines 193-214: the input is exhausted, the rest is flushed and the file written
EndOfInput ==
    /\ pc = "loop"
    /\ Written(FinalFlush(texts, LoopState))
    /\ flushes' = IF pending_messages = <<>> THEN flushes
                  ELSE Logged(flushes, pending_messages,
                              format_merged_messages(texts, pending_messages))
    /\ UNCHANGED <<lang, line_num, accepted, accepted_at, contentVars, callVars>>

MergeInit ==
    /\ lang \in {"zh", "en"}
    /\ pc = "loop"
    /\ line_num = 0
    /\ pending_messages = <<>>
    /\ conversation_content = <<>>
    /\ message_count = 0
    /\ output_filename = <<>>
    /\ written = <<>>
    /\ accepted = <<>>
    /\ accepted_at = <<>>
    /\ flushes = <<>>

\* the loop variables of a specification that does not run the loop
MergeIdle ==
    /\ lang = "zh"
    /\ pc = "idle"
    /\ line_num = 0
    /\ pending_messages = <<>>
    /\ conversation_content = <<>>
    /\ message_count = 0
    /\ output_filename = <<>>
    /\ written = <<>>
    /\ accepted = <<>>
    /\ accepted_at = <<>>
    /\ flushes = <<>>

CallIdle == arg = <<>> /\ ret = <<>> /\ cpc = "idle" /\ shortened = <<>> /\ iterations = 0

ContentIdle ==
    /\ message_content = <<>>
    /\ analysis = <<>>
    /\ item_idx = 0
    /\ content_parts = <<>>
    /\ is_first_tool = TRUE
    /\ rpc = "idle"

Init == MergeInit /\ ContentIdle /\ CallIdle

Next ==
    \/ SkipBlankLine
    \/ SkipMalformedJson
    \/ SkipOtherType
    \/ SkipNoneContent
    \/ SkipEmptyContent
    \/ StartGroup
    \/ Accumulate
    \/ FlushOnRoleChange
    \/ EndOfInput

Spec == Init /\ [][Next]_vars

---------------------------------------------------------------------------
(* The claims about the loop, checked under Spec *)

\* the loop state after the message objects msgs, from st
RECURSIVE RunFrom(_, _, _)
RunFrom(tx, st, msgs) ==
    IF msgs = <<>> THEN st ELSE RunFrom(tx, MergeStep(tx, st, Head(msgs)), Tail(msgs))

EmptyLoopState == [pending |-> <<>>, content |-> <<>>, count |-> 0, aborted |-> FALSE]

\* the first indexes of the maximal runs of equal consecutive role
RunStarts(msgs) == {i \in 1..Len(msgs) : i = 1 \/ msgs[i].role # msgs[i - 1].role}

\* the run that starts at i
RunAt(msgs, i) ==
    LET j == CHOOSE k \in i..Len(msgs) :
                /\ \A m \in i..k : msgs[m].role = msgs[i].role
                /\ (k = Len(msgs) \/ msgs[k + 1].role # msgs[i].role)
    IN  SubSeq(msgs, i, j)

\* a group renders to nothing beyond its header and the closing blank line
HasEmptyBody(tx, group) ==
    LET formatted == format_merged_messages(tx, group)
    IN  /\ ~formatted.exc
        /\ formatted.out \in
              {<<>>,
               _format_message_header(tx, group[1].role, HeaderTimestamp(group))
               \o <<NL, NL>>}

EmptyRuns(tx, msgs) == {i \in RunStarts(msgs) : HasEmptyBody(tx, RunAt(msgs, i))}

\* C1: once the file is processed, message_count is the number of maximal runs
\* of equal consecutive role among the accepted messages, minus the runs whose
\* rendered body is empty.
C1_CountIsRunsMinusEmpty ==
    pc \in {"done", "aborted"} =>
        message_count = Cardinality(RunStarts(accepted))
                        - Cardinality(EmptyRuns(texts, accepted))

\* C1 on the files whose processing does not raise (not the claim: the claim
\* is about every sequence of accepted messages).
C1_CountWhenDone ==
    pc = "done" =>
        message_count = Cardinality(RunStarts(accepted))
                        - Cardinality(EmptyRuns(texts, accepted))

\* C3: no field shape of an accepted record raises: no exception leaves the
\* per-record loop, and the conversation is processed to its end.
C3_NeverRaises == pc # "aborted"

\* s without its first character when that is a newline (the leading blank line)
WithoutLeadingNewline(s) == IF s # <<>> /\ s[1] = NL THEN Tail(s) ELSE s

\* the Content Renderer body of a member
RendererBody(tx, msg_obj) == RenderContent(tx, RecordContent(msg_obj.data)).out

\* C4: every tool-bearing member of a rendered group contributes its full
\* Content Renderer body, at most the leading blank line removed: no line of
\* its text or tool output is lost.
C4_FullBodyKept ==
    \A f \in 1..Len(flushes) :
        \A i \in 1..Len(flushes[f].messages) :
            flushes[f].messages[i].has_tools =>
                Contains(flushes[f].formatted,
                         WithoutLeadingNewline(RendererBody(texts, flushes[f].messages[i])))

\* C8: a skipped line is a no-op on the merge state.  Whatever lines were
\* skipped between them, the loop state is the one the accepted messages alone
\* produce, and the file written is the one they alone produce.
C8_SkippedLinesAreNoOps ==
    LET alone == RunFrom(texts, EmptyLoopState, accepted)
    IN  /\ pc = "loop" => LoopState = alone
        /\ pc = "done" => /\ LoopState = FinalFlush(texts, alone)
                          /\ written = FinalFlush(texts, alone).content
        /\ pc = "aborted" => FinalFlush(texts, alone).aborted

\* C8 witness: a file written after a line was skipped between two messages of
\* one role, which share one entry.
C8_Witness ==
    /\ pc = "done"
    /\ Len(accepted) = 2
    /\ accepted_at = <<1, 3>>
    /\ accepted[1].role = accepted[2].role
    /\ message_count = 1
    /\ written # <<>>

Concat(parts) == Join(parts, <<>>)

NoTools(group) == \A i \in 1..Len(group) : ~group[i].has_tools

\* C9: a group all of whose members have no tools renders to one header, of
\* the first member's role and timestamp, then the members' texts in input
\* order with nothing between them, then two newlines.
C9_PlainGroupEntry ==
    \A f \in 1..Len(flushes) :
        NoTools(flushes[f].messages) =>
            flushes[f].formatted =
                _format_message_header(texts, flushes[f].messages[1].role,
                                       Get(flushes[f].messages[1].data, "timestamp", <<>>))
                \o Concat([i \in 1..Len(flushes[f].messages) |-> flushes[f].messages[i].text])
                \o <<NL, NL>>

\* C9 witness: the user messages "hi" and "there", of different timestamps,
\* rendered as one entry.
C9_Witness ==
    \E f \in 1..Len(flushes) :
        /\ Len(flushes[f].messages) = 2
        /\ flushes[f].messages[1].text = <<"h", "i">>
        /\ flushes[f].messages[2].text = <<"t", "h", "e", "r", "e">>
        /\ Contains(flushes[f].formatted, <<NL, "h", "i", "t", "h", "e", "r", "e", NL, NL>>)

\* C12: all members of the pending group have the role of its first
\* member, every member has non-blank text or tool activity, and the pending
\* group is empty only before the first accepted message has been seen.
C12_PendingGroupInvariant ==
    /\ \A i \in 1..Len(pending_messages) :
          /\ pending_messages[i].role = pending_messages[1].role
          /\ (NonBlank(pending_messages[i].text) \/ pending_messages[i].has_tools)
    /\ pending_messages = <<>> <=> accepted = <<>>

\* C12 witness: after a flush, the new group has accumulated a second member,
\* and one of its members has tool activity and no text.
C12_Witness ==
    /\ pc = "loop"
    /\ Len(flushes) = 1
    /\ Len(pending_messages) = 2
    /\ \E i \in 1..2 : ~NonBlank(pending_messages[i].text) /\ pending_messages[i].has_tools

\* the messages of the groups flushed, and their texts, in the order flushed
FlushedMessages == Concat([f \in 1..Len(flushes) |-> flushes[f].messages])
FlushedText == Concat([f \in 1..Len(flushes) |-> flushes[f].formatted])

\* each group flushed ended where the role changed, and the pending group
\* starts with the message that changed it
FlushedOnRoleChange ==
    /\ \A f \in 1..Len(flushes) :
          /\ flushes[f].messages # <<>>
          /\ \A i \in 1..Len(flushes[f].messages) :
                flushes[f].messages[i].role = flushes[f].messages[1].role
    /\ \A f \in 1..(Len(flushes) - 1) :
          flushes[f + 1].messages[1].role # flushes[f].messages[1].role
    /\ (pc = "loop" /\ flushes # <<>>) =>
          /\ pending_messages # <<>>
          /\ pending_messages[1].role # flushes[Len(flushes)].messages[1].role
          /\ pending_messages[1] = accepted[Len(FlushedMessages) + 1]

\* the accepted messages are the flushed groups, then the pending group
NothingLostSoFar ==
    /\ FlushedMessages \o pending_messages = accepted
    /\ conversation_content = FlushedText
    /\ message_count = Len(flushes)

\* C13: no accepted message is lost, duplicated or reordered: the accepted
\* messages are, in order, those of the groups flushed and then of the pending
\* group; each group was flushed where the role changed or at the end of the
\* input, and the message that changed the role starts the next group; the
\* groups are in the transcript in the order flushed; once processing is over
\* every accepted message has been flushed and the transcript is written.
C13_NoMessageLost ==
    /\ FlushedOnRoleChange
    /\ pc = "loop" => NothingLostSoFar
    /\ pc # "loop" => /\ FlushedMessages = accepted
                      /\ written = FlushedText

\* C13 on the files whose processing does not raise (not the claim: the claim
\* is about every accepted message).
C13_WhenDone ==
    /\ FlushedOnRoleChange
    /\ pc = "loop" => NothingLostSoFar
    /\ pc = "done" => /\ FlushedMessages = accepted
                      /\ written = FlushedText
                      /\ conversation_content = FlushedText

---------------------------------------------------------------------------
(* SpecClean: clean_content applied to every short string, then to its     *)
(* own result                                                               *)

MaxCleanLen == 4

CleanAlphabet == {SP, "1", ARROW, NL, "x"}

CleanInit ==
    /\ MergeIdle
    /\ ContentIdle
    /\ arg \in Strings(CleanAlphabet, MaxCleanLen)
    /\ ret = <<>>
    /\ cpc = "ready"
    /\ shortened = <<>>
    /\ iterations = 0

CallClean ==
    /\ cpc = "ready"
    /\ LET once == clean_content(Str(arg))
       IN  ret' = [once |-> once, twice |-> clean_content(Str(once))]
    /\ cpc' = "returned"
    /\ UNCHANGED <<arg, shortened, iterations, mergeVars, contentVars>>

SpecClean == CleanInit /\ [][CallClean]_vars

\* the number of arrow glyphs of a line
Arrows(line) == Cardinality({i \in 1..Len(line) : line[i] = ARROW})

AtMostOneArrowPerLine(s) == \A j \in 1..Len(Split(s)) : Arrows(Split(s)[j]) <= 1

\* C2 as stated: cleaning is idempotent, clean_content(clean_content(s)) =
\* clean_content(s) for every string s.
C2_Idempotent == cpc = "returned" => ret.twice = ret.once

\* C2 as amended: cleaning is idempotent on every string none of whose lines
\* holds more than one arrow glyph.
C2_IdempotentOneArrow ==
    (cpc = "returned" /\ AtMostOneArrowPerLine(arg)) => ret.twice = ret.once

\* C2 witness: a string with one arrow per line from which cleaning removed a
\* line-number prefix, cleaned twice.
C2_Witness ==
    /\ cpc = "returned"
    /\ AtMostOneArrowPerLine(arg)
    /\ \E i \in 1..Len(arg) : arg[i] = ARROW
    /\ \E i \in 1..Len(arg) : arg[i] = NL
    /\ Len(ret.once) < Len(arg) - 1
    /\ ret.twice = ret.once


---------------------------------------------------------------------------
(* SpecContent: one content payload, analysed by _analyze_content and,     *)
(* when it is a list, rendered by _process_content_list one item at a time *)

MaxItems == 3

ContentItems ==
    { Str(<<"x">>),                                  \* not a dict
      Thinking,
      OtherItem,
      TextItem(Str(<<"h", "i">>)),
      TextItem(Str(<<SP>>)),                         \* blank
      TextItem(Str(<<"1", ARROW>>)),                 \* blank once cleaned
      TextItem(None),
      BashTool,
      ReadTool,
      ToolResult(Str(<<"r">>)) }

ContentPayloads ==
    {List(items) : items \in UNION {[1..n -> ContentItems] : n \in 0..MaxItems}}
    \cup {Str(<<"h", "i">>), Str(<<>>), None, Num(<<"7">>)}

ContentInit ==
    /\ MergeIdle
    /\ CallIdle
    /\ message_content \in ContentPayloads
    /\ analysis = <<>>
    /\ item_idx = 0
    /\ content_parts = <<>>
    /\ is_first_tool = TRUE
    /\ rpc = "new"

\* line 150: content_info = self._analyze_content(content)
Analyze ==
    /\ rpc = "new"
    /\ analysis' = _analyze_content(message_content)
    /\ rpc' = "analyzed"
    /\ UNCHANGED <<message_content, item_idx, content_parts, is_first_tool, mergeVars, callVars>>

\* lines 452-453 and 390-392: a list content enters the loop
BeginRender ==
    /\ rpc = "analyzed"
    /\ message_content.t = "list"
    /\ item_idx' = 0
    /\ content_parts' = <<>>
    /\ is_first_tool' = TRUE
    /\ rpc' = "rendering"
    /\ UNCHANGED <<message_content, analysis, mergeVars, callVars>>

\* the loop variables after an iteration that ended in st
SetRenderState(st) ==
    /\ content_parts' = st.content_parts
    /\ is_first_tool' = st.is_first_tool
    /\ rpc' = IF st.exc THEN "raised" ELSE "rendering"

\* lines 394-419: one iteration
RenderItem ==
    /\ rpc = "rendering"
    /\ item_idx < Len(message_content.items)
    /\ item_idx' = item_idx + 1
    /\ SetRenderState(ProcessItem(texts,
                                  [exc |-> FALSE, content_parts |-> content_parts,
                                   is_first_tool |-> is_first_tool],
                                  message_content.items[item_idx + 1]))
    /\ UNCHANGED <<message_content, analysis, mergeVars, callVars>>

\* line 421
EndRender ==
    /\ rpc = "rendering"
    /\ item_idx = Len(message_content.items)
    /\ rpc' = "rendered"
    /\ UNCHANGED <<message_content, analysis, item_idx, content_parts, is_first_tool,
                   mergeVars, callVars>>

ContentNext == Analyze \/ BeginRender \/ RenderItem \/ EndRender

SpecContent == ContentInit /\ [][ContentNext]_vars

IsToolItem(item) ==
    /\ item.t = "dict"
    /\ "type" \in DOMAIN item
    /\ item.type \in {"tool_use", "tool_result"}

\* C7: the analysis reports tools exactly when the payload is a list with at
\* least one dictionary item of type tool_use or tool_result; a string
\* payload and any other payload report none.
C7_HasToolsIff ==
    rpc # "new" =>
        (analysis.has_tools <=>
            /\ message_content.t = "list"
            /\ \E i \in 1..Len(message_content.items) : IsToolItem(message_content.items[i]))

\* C7: a list whose only tool item is not the last one has been analysed,
\* and so has a list without any
C7_Witness ==
    /\ rpc = "analyzed"
    /\ message_content.t = "list"
    /\ Len(message_content.items) = MaxItems
    /\ IsToolItem(message_content.items[1])
    /\ \A i \in 2..MaxItems : ~IsToolItem(message_content.items[i])
    /\ analysis.has_tools

IsToolUse(item) == item.t = "dict" /\ "type" \in DOMAIN item /\ item.type = "tool_use"

\* a text item whose cleaned text is not blank
HasCleanedText(item) ==
    /\ item.t = "dict"
    /\ "type" \in DOMAIN item
    /\ item.type = "text"
    /\ "text" \in DOMAIN item
    /\ item.text.t = "str"
    /\ NonBlank(clean_content(item.text))

\* no tool_use among items[from..to]
NoToolUseIn(items, from, to) == \A j \in from..to : ~IsToolUse(items[j])

\* no tool_use among the first n items, or none since the last of them that
\* is a text item with a non-blank cleaned text
NoToolUseSinceText(items, n) ==
    \/ NoToolUseIn(items, 1, n)
    \/ \E j \in 1..n : HasCleanedText(items[j]) /\ NoToolUseIn(items, j + 1, n)

\* C10: as written: a tool_use item is rendered with the double newline
\* exactly when no tool_use was rendered before it, or none since the last
\* text item whose cleaned text is not blank.
C10_FirstToolAfterCleanedText ==
    (/\ rpc \in {"rendering", "rendered"}
     /\ item_idx > 0
     /\ IsToolUse(message_content.items[item_idx]))
    => (StartsWith(content_parts[Len(content_parts)], <<NL, NL>>)
        <=> NoToolUseSinceText(message_content.items, item_idx - 1))

---------------------------------------------------------------------------
(* SpecResult: _process_tool_result_item on string contents whose length   *)
(* is around MAX_RESULT_LENGTH                                              *)

MaxPiece == 2

ResultAlphabet == {"1", ARROW, NL, "x"}

\* a run of "x", a short piece, and a run of "x"
ResultContents ==
    { Rep("x", n) \o piece \o Rep("x", m) :
        n \in (MAX_RESULT_LENGTH - MaxPiece - 1)..MAX_RESULT_LENGTH,
        piece \in Strings(ResultAlphabet, MaxPiece),
        m \in {0, MaxPiece + 1} }

ResultInit ==
    /\ MergeIdle
    /\ ContentIdle
    /\ arg \in ResultContents
    /\ ret = <<>>
    /\ cpc = "ready"
    /\ shortened = <<>>
    /\ iterations = 0

CallResult ==
    /\ cpc = "ready"
    /\ ret' = _process_tool_result_item(texts, ToolResult(Str(arg)))
    /\ cpc' = "returned"
    /\ UNCHANGED <<arg, shortened, iterations, mergeVars, contentVars>>

SpecResult == ResultInit /\ [][CallResult]_vars

\* the block of a result: a newline, the label, a blank line, the result, a newline
ResultBlock(result_cleaned) == <<NL>> \o texts.result \o <<NL, NL>> \o result_cleaned \o <<NL>>

\* the length of the result inside a block
ResultLength(block) == Len(block) - Len(texts.result) - 4

\* C5: a content longer than the cap is cut to the cap and given the
\* truncation marker before it is cleaned: the block is that of the cleaned
\* cut, it ends with the marker, and the result is no longer than the cap
\* plus the marker.
C5_TruncatedBeforeCleaning ==
    (cpc = "returned" /\ Len(arg) > MAX_RESULT_LENGTH) =>
        /\ ~ret.exc
        /\ ret.out = ResultBlock(clean_content(Str(SubSeq(arg, 1, MAX_RESULT_LENGTH)
                                                   \o TRUNCATION_MARKER)))
        /\ EndsWith(ret.out, TRUNCATION_MARKER \o <<NL>>)
        /\ ResultLength(ret.out) <= MAX_RESULT_LENGTH + Len(TRUNCATION_MARKER)

\* C5: a content over the cap whose cut falls right after a line number and
\* its arrow has been rendered
C5_Witness ==
    /\ cpc = "returned"
    /\ Len(arg) > MAX_RESULT_LENGTH
    /\ arg[MAX_RESULT_LENGTH - 1] = "1"
    /\ arg[MAX_RESULT_LENGTH] = ARROW
    /\ ~ret.exc

---------------------------------------------------------------------------
(* SpecFilename: generate_filename, the loop of _truncate_filename_bytes   *)
(* one iteration at a time                                                  *)

MaxContentLines == 2

FilenameLines ==
    { Rep(BOX, 3),
      <<ICON_USER, SP, "U">>,
      TS1,
      <<"A", "r", "g", "s", ":", SP, "{", "p", "}">>,
      <<"a", "b">>,
      <<"#", SP, "T", "i", "t", "l", "e", "-", "x", "!", "_", "U+4E2D">>,
      Rep("a", MAX_FILENAME_BYTES + 1),
      Rep("U+00E9", 31),
      Rep("U+4E2D", 21),
      <<"a", "b">> \o Rep("U+20000", 15) \o <<"c", "d">> }

FilenameContents ==
    {Join(lines, <<NL>>) : lines \in UNION {[1..n -> FilenameLines] : n \in 0..MaxContentLines}}

FilenameNames == {JSONL_NAME}

FilenameInit ==
    /\ MergeIdle
    /\ ContentIdle
    /\ arg \in [content : FilenameContents, original_name : FilenameNames]
    /\ ret = <<>>
    /\ cpc = "ready"
    /\ shortened = <<>>
    /\ iterations = 0

\* lines 638-655: the meaningful text, cleaned, enters the loop of line 631
BeginTruncate ==
    /\ cpc = "ready"
    /\ shortened' = MeaningfulText(arg.content)
    /\ cpc' = "truncating"
    /\ UNCHANGED <<arg, ret, iterations, mergeVars, contentVars>>

\* lines 631-632: text = text[:-1]
DropLastChar ==
    /\ cpc = "truncating"
    /\ TooLong(shortened, MAX_FILENAME_BYTES)
    /\ shortened' = SubSeq(shortened, 1, Len(shortened) - 1)
    /\ iterations' = iterations + 1
    /\ UNCHANGED <<arg, ret, cpc, mergeVars, contentVars>>

\* lines 633-634 and 658-668: the loop ends and the name is put together
ReturnFilename ==
    /\ cpc = "truncating"
    /\ ~TooLong(shortened, MAX_FILENAME_BYTES)
    /\ ret' = BuildFilename(RemoveAll(arg.original_name, JSONL), shortened)
    /\ cpc' = "returned"
    /\ UNCHANGED <<arg, shortened, iterations, mergeVars, contentVars>>

FilenameNext == BeginTruncate \/ DropLastChar \/ ReturnFilename

SpecFilename == FilenameInit /\ [][FilenameNext]_vars

\* the name is base, "_", portion, ".txt", or base, ".txt" for an empty portion
HasStructure(filename, base, portion) ==
    /\ StartsWith(filename, base)
    /\ EndsWith(filename, TXT)
    /\ Len(filename) = Len(base) + Len(TXT) + (IF portion = <<>> THEN 0 ELSE 1 + Len(portion))
    /\ portion # <<>> =>
          /\ filename[Len(base) + 1] = "_"
          /\ SubSeq(filename, Len(base) + 2, Len(base) + 1 + Len(portion)) = portion

\* C6: the meaningful-text portion of the derived filename is at most 60
\* UTF-8 bytes and holds only word characters, CJK ideographs, underscore
\* and hyphen; the filename is base_portion.txt, or base.txt when the portion
\* is empty; the truncation loop terminates: it has dropped one character
\* per iteration and can drop no more characters than the text had.
C6_FilenameBounded ==
    /\ cpc \in {"truncating", "returned"} =>
          /\ Len(shortened) + iterations = Len(MeaningfulText(arg.content))
          /\ shortened = SubSeq(MeaningfulText(arg.content), 1, Len(shortened))
    /\ (cpc = "truncating" /\ shortened = <<>>) => ENABLED ReturnFilename
    /\ cpc = "returned" =>
          /\ Utf8Len(shortened) <= 60
          /\ \A i \in 1..Len(shortened) :
                \/ IsWord(shortened[i])
                \/ (Ord(shortened[i]) >= 19968 /\ Ord(shortened[i]) <= 40869)
                \/ shortened[i] \in {"_", "-"}
          /\ HasStructure(ret, RemoveAll(arg.original_name, JSONL), shortened)
          /\ ret = generate_filename(arg.content, arg.original_name)

\* C6: a name has been derived from a text of four-byte characters that the
\* loop had to shorten
C6_Witness ==
    /\ cpc = "returned"
    /\ iterations > 0
    /\ \E i \in 1..Len(shortened) : Utf8Width(shortened[i]) = 4
    /\ Utf8Len(shortened) > MAX_FILENAME_BYTES - 4

---------------------------------------------------------------------------
(* SpecFormat: format_dict on nested values, called as line 357 calls it   *)

MaxDepth == 2

FormatScalars == {Str(<<"v">>), Num(<<"1">>), List(<<Num(<<"1">>), Str(<<"v">>)>>)}

\* the values nested to depth d at most; "b" is inserted before "a"
RECURSIVE FormatValues(_)
FormatValues(d) ==
    IF d = 0 THEN FormatScalars
    ELSE FormatValues(d - 1)
         \cup {Map(<<>>)}
         \cup {Map(<< <<<<"a">>, x>> >>) : x \in FormatValues(d - 1)}
         \cup {Map(<< <<<<"b">>, x>>, <<<<"a">>, y>> >>) :
                  x \in FormatValues(d - 1), y \in FormatScalars}
         \cup {Map(<< <<<<"b">>, x>>, <<<<"a">>, x>> >>) : x \in FormatValues(d - 1)}

FormatInit ==
    /\ MergeIdle
    /\ ContentIdle
    /\ arg \in FormatValues(MaxDepth)
    /\ ret = <<>>
    /\ cpc = "ready"
    /\ shortened = <<>>
    /\ iterations = 0

CallFormat ==
    /\ cpc = "ready"
    /\ ret' = format_dict(arg, 0)
    /\ cpc' = "returned"
    /\ UNCHANGED <<arg, shortened, iterations, mergeVars, contentVars>>

SpecFormat == FormatInit /\ [][CallFormat]_vars

\* the formatter without indentation: entries "key: value" in key order,
\* joined by ", ", each mapping in braces
RECURSIVE FlatFormat(_)
FlatFormat(data) ==
    IF data.t # "map" THEN PyStr(data)
    ELSE LET keys == SortedKeys({data.kv[i][1] : i \in 1..Len(data.kv)})
             rendered(value) ==
                 IF value.t = "map" THEN FlatFormat(value)
                 ELSE IF value.t = "list"
                 THEN <<"[">> \o Join([i \in 1..Len(value.items) |-> PyStr(value.items[i])],
                                      <<",", " ">>) \o <<"]">>
                 ELSE PyStr(value)
         IN  <<"{">>
             \o Join([j \in 1..Len(keys) |->
                         keys[j] \o <<":", " ">> \o rendered(Lookup(data, keys[j]))],
                     <<",", " ">>)
             \o <<"}">>

\* the number of entries of a mapping, 0 for another value
Entries(data) == IF data.t = "map" THEN Len(data.kv) ELSE 0

\* the spaces before the entries of data rendered at a level: two per level
\* for each entry, the entries of a nested mapping one level deeper
RECURSIVE EntrySpaces(_, _, _)
EntrySpaces(data, level, n) ==
    IF data.t # "map" \/ n = 0 THEN 0
    ELSE 2 * level
         + EntrySpaces(data.kv[n][2], level + 1, Entries(data.kv[n][2]))
         + EntrySpaces(data, level, n - 1)

NotSpace(c) == c # SP

\* a mapping with an entry, nested in a mapping
HasNestedEntry(data) ==
    /\ data.t = "map"
    /\ \E i \in 1..Len(data.kv) : data.kv[i][2].t = "map" /\ data.kv[i][2].kv # <<>>

\* C11 as stated: the indent level never changes the output: format_dict
\* returns the string of the formatter without indentation.
C11_IndentationInert == cpc = "returned" => ret = FlatFormat(arg)

\* C11 as amended: format_dict returns the string of the formatter without
\* indentation with two spaces per level added before each entry, the level
\* being the nesting depth of the entry's mapping (0 at the top); the two
\* strings are equal exactly when no mapping with an entry is nested in a
\* mapping of the value.
C11_IndentationAddsSpaces ==
    cpc = "returned" =>
        /\ SelectSeq(ret, NotSpace) = SelectSeq(FlatFormat(arg), NotSpace)
        /\ Len(ret) = Len(FlatFormat(arg))
                      + EntrySpaces(arg, 0, Entries(arg))
        /\ ~HasNestedEntry(arg) => ret = FlatFormat(arg)
        /\ HasNestedEntry(arg) => ret # FlatFormat(arg)

\* C11 witness: a mapping nested in a mapping, formatted with two spaces
\* before the nested entry
C11_Witness ==
    /\ cpc = "returned"
    /\ HasNestedEntry(arg)
    /\ Contains(ret, <<"{", "a", ":", SP, "{", SP, SP, "a", ":", SP>>)

=============================================================================
